---- MODULE Spec2Model ----
(***************************************************************************)
(* Model of scripts/scrape_numbers4.py: the range resolution, the detail   *)
(* page crawl, the payout lookup, the merge with the stored CSV, and the   *)
(* --fill-payouts mode around fill_missing_payouts.                        *)
(*                                                                         *)
(* Representation of the Python values:                                    *)
(*   - None / NaN is the empty tuple <<>>, a present value v is <<v>>;      *)
(*   - a text is a sequence of character codes: 0..9 are the decimal       *)
(*     digits, any larger code is a character that is not a digit;         *)
(*   - a date cell is <<>> (NaN) or <<year, month, day>> (the text         *)
(*     "YYYY/MM/DD", whose string order is the order of the triple);       *)
(*   - a dict / DataFrame row is a function from column names to values;   *)
(*     an integer cell read back from the CSV (the winning number) is kept *)
(*     as its decimal text, i.e. without leading zeros.                    *)
(***************************************************************************)
EXTENDS Integers, Sequences, FiniteSets, TLC

None == <<>>
Some(v) == <<v>>

\* pd.isna / "is None"
isna(x) == x = None

\* Character codes that are not digits: the character before the number in a
\* label, the character after it, and a blank inside a scraped cell.
NonDigits == <<10, 11, 12>>
DAI == NonDigits[1]
KAI == NonDigits[2]
SPACE == NonDigits[3]

IsDigit(c) == c \in 0..9

RECURSIVE IntOf(_)
\* int("0012") = 12
IntOf(ds) ==
    IF ds = <<>> THEN 0
    ELSE IntOf(SubSeq(ds, 1, Len(ds) - 1)) * 10 + ds[Len(ds)]

RECURSIVE StrOfPos(_)
StrOfPos(n) == IF n < 10 THEN <<n>> ELSE StrOfPos(n \div 10) \o <<n % 10>>

\* str(n) for n >= 0 (the decimal text, no leading zeros)
StrOf(n) == StrOfPos(n)

\* re.sub(r"\D", "", text)
DigitsOnly(text) == SelectSeq(text, IsDigit)

\* re.search(r"(\d+)", text).group(1): the first maximal run of digits, <<>> if none
FirstDigitRun(text) ==
    LET at == {i \in 1..Len(text) : IsDigit(text[i])}
    IN  IF at = {} THEN <<>>
        ELSE LET i0 == CHOOSE i \in at : \A j \in at : i <= j
                 ends == {j \in i0..Len(text) :
                            /\ \A k \in i0..j : IsDigit(text[k])
                            /\ (j = Len(text) \/ ~IsDigit(text[j + 1]))}
                 j0 == CHOOSE j \in ends : TRUE
             IN  SubSeq(text, i0, j0)

to_round_int_no_match == 0 - 1

\* to_round_int: "第0001回" -> 1, a label without a digit -> -1
to_round_int(label) ==
    LET run == FirstDigitRun(label)
    IN  IF run = <<>> THEN to_round_int_no_match ELSE IntOf(run)

\* get_month_from_date: "YYYY/MM/DD" -> "YYYYMM", None when the cell does not match
get_month_from_date(date) ==
    IF Len(date) = 3 THEN Some(<<date[1], date[2]>>) ELSE None

Max2(a, b) == IF a >= b THEN a ELSE b
Min2(a, b) == IF a <= b THEN a ELSE b
MaxOf(S) == CHOOSE x \in S : \A y \in S : y <= x

(***************************************************************************)
(* Columns                                                                 *)
(***************************************************************************)
LABEL == "draw_no_label"
DATE == "draw_date"
NUMBER == "winning_number"
DIGIT_COLS == <<"digit1", "digit2", "digit3", "digit4">>
payout_cols == <<"straight_payout", "box_payout", "set_straight_payout", "set_box_payout">>
CSV_COLUMNS == <<LABEL, DATE, NUMBER>> \o DIGIT_COLS \o payout_cols
ROUND_INT == "round_int"
HELPER == "__round_int__"

SeqRange(s) == {s[i] : i \in 1..Len(s)}
PayoutSet == SeqRange(payout_cols)
CsvColumnSet == SeqRange(CSV_COLUMNS)
BaseColumnSet == CsvColumnSet \ PayoutSet

\* df[cols] on one row
Project(row, cols) == [c \in cols |-> row[c]]
\* df[col] = value on one row (adds or overwrites the column)
WithCol(row, col, value) ==
    [c \in (DOMAIN row) \cup {col} |-> IF c = col THEN value ELSE row[c]]
\* drop without inplace=True: the column stays
DropCol_not_inplace(row, col) == row
\* df.drop(columns=[col]) on one row
DropCol(row, col) == [c \in (DOMAIN row) \ {col} |-> row[c]]
\* "if col not in df.columns: df[col] = None" for every col of cols
AddMissingCols(row, cols) ==
    [c \in (DOMAIN row) \cup cols |-> IF c \in DOMAIN row THEN row[c] ELSE None]

MapSeq(s, F(_)) == [i \in 1..Len(s) |-> F(s[i])]

(***************************************************************************)
(* DataFrame.sort_values(["round_int", date]) and drop_duplicates          *)
(***************************************************************************)
TripleLess(a, b) ==
    \/ a[1] < b[1]
    \/ a[1] = b[1] /\ a[2] < b[2]
    \/ a[1] = b[1] /\ a[2] = b[2] /\ a[3] < b[3]

\* order of the date column: NaN sorts last (na_position="last")
DateLess(a, b) ==
    IF a = None THEN FALSE
    ELSE IF b = None THEN TRUE
    ELSE TripleLess(a, b)

KeyLess(a, b) ==
    \/ a[ROUND_INT] < b[ROUND_INT]
    \/ a[ROUND_INT] = b[ROUND_INT] /\ DateLess(a[DATE], b[DATE])

\* stable insertion: x goes after every element that does not sort after it
InsertSorted(sorted, x) ==
    LET after == {i \in 1..Len(sorted) : KeyLess(x, sorted[i])}
        pos == IF after = {} THEN Len(sorted) + 1
               ELSE CHOOSE i \in after : \A j \in after : i <= j
    IN  SubSeq(sorted, 1, pos - 1) \o <<x>> \o SubSeq(sorted, pos, Len(sorted))

\* sort_values without inplace=True: the frame keeps its order
sort_values_not_inplace(rows) == rows

RECURSIVE sort_values(_)
sort_values(rows) ==
    IF rows = <<>> THEN <<>>
    ELSE InsertSorted(sort_values(SubSeq(rows, 1, Len(rows) - 1)), rows[Len(rows)])

KeepIndices(rows, keep) ==
    LET F[i \in 0..Len(rows)] ==
            IF i = 0 THEN <<>>
            ELSE IF i \in keep THEN Append(F[i - 1], rows[i]) ELSE F[i - 1]
    IN  F[Len(rows)]

\* drop_duplicates without inplace=True: nothing is dropped
drop_duplicates_not_inplace(rows) == rows

\* drop_duplicates(subset=["round_int"], keep="last")
drop_duplicates(rows) ==
    KeepIndices(rows, {i \in 1..Len(rows) :
                         \A j \in (i + 1)..Len(rows) : rows[j][ROUND_INT] # rows[i][ROUND_INT]})

(***************************************************************************)
(* build_detail_urls: a URL is the pair <<st, en>> of "st:04d-en:04d"      *)
(***************************************************************************)
CHUNK == 20

\* en = st + 19 without the min: the last unit runs past the end
build_detail_urls_unclamped(start_round, end_round) ==
    LET s == Max2(1, start_round)
        e == Max2(s, end_round)
        n == ((e - s) \div CHUNK) + 1
    IN  [k \in 1..n |-> <<s + (k - 1) * CHUNK, s + (k - 1) * CHUNK + CHUNK - 1>>]

build_detail_urls(start_round, end_round) ==
    LET s == Max2(1, start_round)
        e == Max2(s, end_round)
        n == ((e - s) \div CHUNK) + 1
    IN  [k \in 1..n |-> <<s + (k - 1) * CHUNK, Min2(s + (k - 1) * CHUNK + CHUNK - 1, e)>>]

(***************************************************************************)
(* scrape_detail_page: the rows of one range page.  A raw row is the text  *)
(* of its three cells.                                                     *)
(***************************************************************************)
ParseDetailRow(raw) ==
    LET num_only == DigitsOnly(raw.numbers)
    IN  [c \in BaseColumnSet |->
            CASE c = LABEL -> raw.round_label
              [] c = DATE -> raw.date
              [] c = NUMBER -> num_only
              [] c = "digit1" -> num_only[1]
              [] c = "digit2" -> num_only[2]
              [] c = "digit3" -> num_only[3]
              [] c = "digit4" -> num_only[4]]

HasFourDigits(raw) == Len(DigitsOnly(raw.numbers)) = 4

scrape_detail_page(raws) == MapSeq(SelectSeq(raws, HasFourDigits), ParseDetailRow)

(***************************************************************************)
(* collect_payouts_from_months: pages maps a month to the results of       *)
(* scrape_month_with_payouts for that month's page, in page order.         *)
(***************************************************************************)
RECURSIVE MonthResults(_, _)
MonthResults(pages, months) ==
    IF months = <<>> THEN <<>>
    ELSE (IF months[1] \in DOMAIN pages THEN pages[months[1]] ELSE <<>>)
         \o MonthResults(pages, Tail(months))

collect_payouts_from_months(pages, target_rounds, months) ==
    LET rs == MonthResults(pages, months)
        round_num(i) == to_round_int(rs[i][LABEL])
        taken == {i \in 1..Len(rs) : round_num(i) > 0 /\ round_num(i) \in target_rounds}
    IN  [n \in {round_num(i) : i \in taken} |->
            Project(rs[MaxOf({i \in taken : round_num(i) = n})], PayoutSet)]

\* sorted(months_needed): months are <<year, month>>
PairLess(a, b) == a[1] < b[1] \/ (a[1] = b[1] /\ a[2] < b[2])

RECURSIVE SortedMonths(_)
SortedMonths(S) ==
    IF S = {} THEN <<>>
    ELSE LET m == CHOOSE x \in S : \A y \in S \ {x} : PairLess(x, y)
         IN  <<m>> \o SortedMonths(S \ {m})

(***************************************************************************)
(* fill_missing_payouts(df, session): pages is what the session serves.    *)
(* The result is the returned frame, the printed fill count and the        *)
(* lookup the call collected.                                              *)
(***************************************************************************)
missing_mask(row) == \A c \in PayoutSet : isna(row[c])

\* the values assigned to the row copy that iterrows yields: the frame is not written
FillRow_on_copy(row, payouts) == row

FillRow(row, payouts) ==
    IF row[HELPER] \in DOMAIN payouts
    THEN [c \in DOMAIN row |->
            IF c \in PayoutSet /\ isna(row[c]) /\ payouts[row[HELPER]][c] # None
            THEN payouts[row[HELPER]][c]
            ELSE row[c]]
    ELSE row

\* a count of the rows that received a value instead of the cells
FilledCells_per_row(rows, payouts) ==
    {<<i, HELPER>> : i \in {j \in 1..Len(rows) :
        /\ rows[j][HELPER] \in DOMAIN payouts
        /\ \E c \in PayoutSet : isna(rows[j][c]) /\ payouts[rows[j][HELPER]][c] # None}}

FilledCells(rows, payouts) ==
    {<<i, c>> \in (1..Len(rows)) \X PayoutSet :
        /\ rows[i][HELPER] \in DOMAIN payouts
        /\ isna(rows[i][c])
        /\ payouts[rows[i][HELPER]][c] # None}

fill_missing_payouts(df, pages) ==
    LET tagged == [i \in 1..Len(df) |->
                      WithCol(AddMissingCols(df[i], PayoutSet), HELPER,
                              to_round_int(df[i][LABEL]))]
        missing == {i \in 1..Len(tagged) : missing_mask(tagged[i])}
        missing_rounds == {tagged[i][HELPER] : i \in missing}
        months_needed == {get_month_from_date(tagged[i][DATE])[1] :
                            i \in {j \in missing : get_month_from_date(tagged[j][DATE]) # None}}
        payouts == IF missing_rounds = {} THEN <<>>
                   ELSE collect_payouts_from_months(pages, missing_rounds,
                                                    SortedMonths(months_needed))
    IN  [df |-> [i \in 1..Len(tagged) |-> DropCol(FillRow(tagged[i], payouts), HELPER)],
         filled_count |-> Cardinality(FilledCells(tagged, payouts)),
         payouts |-> payouts]

(***************************************************************************)
(* State                                                                   *)
(***************************************************************************)
VARIABLES
    pc,               \* position of the run of the script
    args,             \* the parsed command line
    csv,              \* numbers4_results.csv: [exists, rows]
    csv_at_start,     \* the file as it was when the run began
    site,             \* what the lottery site serves to the session
    end_from_past,    \* get_max_round_from_past_page(session)
    end_from_current, \* get_max_round_from_current_month(session)
    end_auto,
    start_round,
    end_round,
    existing_df,      \* [loaded, rows]: loaded = FALSE is "existing_df is None"
    detail_urls,
    requested,        \* the detail URLs handed to session.get so far
    all_results,
    out_df,
    outcome,          \* how the run ended: the message printed before exit
    df,               \* --fill-payouts: the frame the latest run wrote
    df_in,            \* ... the frame that run read and gave to fill_missing_payouts
    filled_count,     \* ... the count it printed
    payouts,          \* ... the lookup it collected
    prev_payouts,     \* ... the lookup the call before it collected
    calls,            \* ... number of calls so far
    published         \* convert_json.py: [ok, rows], what load_csv returned

vars == <<pc, args, csv, csv_at_start, site, end_from_past, end_from_current, end_auto, start_round,
          end_round, existing_df, detail_urls, requested, all_results, out_df, outcome,
          df, df_in, filled_count, payouts, prev_payouts, calls, published>>

runVars == <<pc, args, csv, end_from_past, end_from_current, end_auto, start_round,
             end_round, existing_df, detail_urls, requested, all_results, out_df, outcome>>
fillVars == <<df, df_in, filled_count, payouts, prev_payouts, calls>>
pubVars == <<published>>

DEFAULT_END == 6546

\* pd.read_csv on the stored rows: an all-digit column is parsed as integers
read_csv(rows) ==
    [i \in 1..Len(rows) |->
        [c \in DOMAIN rows[i] |->
            IF c = NUMBER THEN StrOf(IntOf(rows[i][c])) ELSE rows[i][c]]]

\* pd.DataFrame(list of dicts): the columns are the union of the keys
DataFrame(dicts) ==
    LET cols == UNION {DOMAIN dicts[i] : i \in 1..Len(dicts)}
    IN  [i \in 1..Len(dicts) |-> AddMissingCols(dicts[i], cols)]

\* the first estimate that is available instead of the larger one
EndAuto_first(past, current) ==
    IF past # None THEN past[1] ELSE IF current # None THEN current[1] ELSE DEFAULT_END

\* max(filter(None, [end_from_past, end_from_current]), default=6546)
EndAuto(past, current) ==
    LET found == {e[1] : e \in {x \in {past, current} : x # None /\ x # Some(0)}}
    IN  IF found = {} THEN DEFAULT_END ELSE MaxOf(found)

(***************************************************************************)
(* The run of the script (without --fill-payouts)                          *)
(***************************************************************************)
\* lines 446-455
DetectEnd ==
    /\ pc = "detect"
    /\ ~args.fill_payouts
    /\ end_from_past' = site.past_max
    /\ end_from_current' = site.current_max
    /\ end_auto' = EndAuto(site.past_max, site.current_max)
    /\ pc' = "resolve"
    /\ UNCHANGED <<args, csv, csv_at_start, site, start_round, end_round, existing_df, detail_urls,
                   requested, all_results, out_df, outcome>>
    /\ UNCHANGED fillVars
    /\ UNCHANGED pubVars

\* line 457
StartRound0 == Max2(1, args.start)
\* line 458
EndRound0 == IF args.end # 0 /\ args.end >= StartRound0 THEN args.end ELSE end_auto

WithHelper(rows) ==
    [i \in 1..Len(rows) |-> WithCol(rows[i], HELPER, to_round_int(rows[i][LABEL]))]

max_saved(rows) == MaxOf({rows[i][HELPER] : i \in 1..Len(rows)})

\* lines 457-478
ResolveRange ==
    /\ pc = "resolve"
    /\ end_round' = EndRound0
    /\ LET reads == args.append /\ csv.exists
           loaded == IF reads THEN read_csv(csv.rows) ELSE <<>>
           floors == reads /\ loaded # <<>>
           tagged == IF floors THEN WithHelper(loaded) ELSE loaded
       IN  /\ existing_df' = [loaded |-> reads, rows |-> tagged]
           /\ IF floors /\ max_saved(tagged) >= EndRound0
              THEN /\ pc' = "exit"
                   /\ outcome' = "up_to_date"
                   /\ start_round' = StartRound0
                   /\ UNCHANGED detail_urls
              ELSE /\ pc' = "crawl"
                   /\ start_round' = IF floors
                                      THEN Max2(StartRound0, max_saved(tagged) + 1)
                                      ELSE StartRound0
                   /\ detail_urls' = build_detail_urls(start_round', EndRound0)
                   /\ UNCHANGED outcome
    /\ UNCHANGED <<args, csv, csv_at_start, site, end_from_past, end_from_current, end_auto,
                   requested, all_results, out_df>>
    /\ UNCHANGED fillVars
    /\ UNCHANGED pubVars

BoundedSeq(S, n) == UNION {[1..k -> S] : k \in 0..n}

\* the most records one run's crawl is let to gather
MaxIncoming == 2

\* lines 483-490, one iteration: the request either raises (nothing is added) or
\* the page's rows are scraped and appended
FetchDetailPage ==
    /\ pc = "crawl"
    /\ Len(requested) < Len(detail_urls)
    /\ requested' = Append(requested, detail_urls[Len(requested) + 1])
    /\ \E fails \in BOOLEAN :
       \E raws \in BoundedSeq(site.detail_rows, MaxIncoming - Len(all_results)) :
          all_results' = IF fails THEN all_results
                         ELSE all_results \o scrape_detail_page(raws)
    /\ UNCHANGED <<pc, args, csv, csv_at_start, site, end_from_past, end_from_current, end_auto,
                   start_round, end_round, existing_df, detail_urls, out_df, outcome>>
    /\ UNCHANGED fillVars
    /\ UNCHANGED pubVars

\* MONTHS = generate_months(): the months from 2024/09 on
MONTHS == <<<<2024, 9>>, <<2024, 10>>>>

\* dict.update
Update(row, d) == [c \in (DOMAIN row) \cup (DOMAIN d) |-> IF c \in DOMAIN d THEN d[c] ELSE row[c]]

\* lines 495-500
TargetRounds(results, lo, hi) ==
    {n \in {to_round_int(results[i][LABEL]) : i \in 1..Len(results)} : lo <= n /\ n <= hi}

\* lines 503-510
WithPayouts(results, lookup) ==
    [i \in 1..Len(results) |->
        IF to_round_int(results[i][LABEL]) \in DOMAIN lookup
        THEN Update(results[i], lookup[to_round_int(results[i][LABEL])])
        ELSE results[i]]

\* lines 517-525
DfNew(results) ==
    drop_duplicates(DataFrame(
        [i \in 1..Len(results) |->
            WithCol(results[i], ROUND_INT, to_round_int(results[i][LABEL]))]))

\* lines 533-550
MergeAppend(existing, df_new) ==
    LET existing_norm ==
            [i \in 1..Len(existing) |->
                WithCol(Project(AddMissingCols(existing[i], CsvColumnSet), CsvColumnSet),
                        ROUND_INT, to_round_int(existing[i][LABEL]))]
        new_norm == [i \in 1..Len(df_new) |-> AddMissingCols(df_new[i], CsvColumnSet)]
        combined == drop_duplicates(sort_values(existing_norm \o new_norm))
    IN  [i \in 1..Len(combined) |-> Project(combined[i], CsvColumnSet)]

\* lines 551-559
MergeFull(df_new) ==
    LET new_norm == [i \in 1..Len(df_new) |-> AddMissingCols(df_new[i], CsvColumnSet)]
        sorted == drop_duplicates(sort_values(new_norm))
    IN  [i \in 1..Len(sorted) |-> Project(sorted[i], CsvColumnSet)]

\* lines 492-514: the payout lookup of the crawled records
CollectPayouts ==
    /\ pc = "crawl"
    /\ Len(requested) = Len(detail_urls)
    /\ all_results' =
          IF args.with_payouts \/ args.append
          THEN WithPayouts(all_results,
                  collect_payouts_from_months(site.month_pages,
                      TargetRounds(all_results, start_round, end_round), MONTHS))
          ELSE all_results
    /\ pc' = "merge"
    /\ UNCHANGED <<args, csv, csv_at_start, site, end_from_past, end_from_current, end_auto,
                   start_round, end_round, existing_df, detail_urls, requested, out_df,
                   outcome>>
    /\ UNCHANGED fillVars
    /\ UNCHANGED pubVars

\* the batch is never taken for empty: the run always goes on to write
empty_ignored(rows) == FALSE

\* DataFrame.empty
empty(rows) == rows = <<>>

\* lines 516-562
MergeAndSave ==
    /\ pc = "merge"
    /\ pc' = "exit"
    /\ LET df_new == DfNew(all_results)
       IN  IF empty(df_new)
           THEN /\ outcome' = "no_new_data"
                /\ UNCHANGED <<csv, out_df>>
           ELSE /\ out_df' = IF args.append /\ existing_df.loaded
                              THEN MergeAppend(existing_df.rows, df_new)
                              ELSE MergeFull(df_new)
                /\ csv' = [exists |-> TRUE, rows |-> out_df']
                /\ outcome' = "saved"
    /\ UNCHANGED <<args, csv_at_start, site, end_from_past, end_from_current, end_auto, start_round,
                   end_round, existing_df, detail_urls, requested, all_results>>
    /\ UNCHANGED fillVars
    /\ UNCHANGED pubVars

(***************************************************************************)
(* A run with --fill-payouts, lines 427-444: the file is read, handed to   *)
(* fill_missing_payouts, completed to the CSV columns and written back.    *)
(* Without the file the run prints an error and exits 1.  The next run     *)
(* reads the file this one wrote.                                          *)
(***************************************************************************)
MaxCalls == 2

FillMissingPayouts ==
    /\ pc = "fill"
    /\ args.fill_payouts
    /\ calls < MaxCalls
    /\ calls' = calls + 1
    /\ IF ~csv.exists
       THEN /\ outcome' = "missing_file"
            /\ UNCHANGED <<csv, out_df, df, df_in, filled_count, payouts, prev_payouts>>
       ELSE /\ df_in' = read_csv(csv.rows)
            /\ \E r \in {fill_missing_payouts(df_in', site.month_pages)} :
                  /\ df' = [i \in 1..Len(r.df) |-> AddMissingCols(r.df[i], CsvColumnSet)]
                  /\ filled_count' = r.filled_count
                  /\ payouts' = r.payouts
            /\ prev_payouts' = payouts
            /\ out_df' = [i \in 1..Len(df') |-> Project(df'[i], CsvColumnSet)]
            /\ csv' = [exists |-> TRUE, rows |-> out_df']
            /\ outcome' = "filled"
    /\ UNCHANGED <<pc, args, csv_at_start, site, end_from_past, end_from_current, end_auto,
                   start_round, end_round, existing_df, detail_urls, requested, all_results>>
    /\ UNCHANGED pubVars

(***************************************************************************)
(* Inputs: stored files, site contents and command lines                   *)
(***************************************************************************)
\* f"{n:04d}"
Pad4(n) == [i \in 1..(4 - Len(StrOf(n))) |-> 0] \o StrOf(n)
Label4(n) == <<DAI>> \o Pad4(n) \o <<KAI>>
NoNumberLabel == <<DAI, KAI>>

NoPay == <<None, None, None, None>>

\* a row of the CSV: number is the text of the winning number cell, digits its digits
StoredRow(label, date, number, digits, pay) ==
    [c \in CsvColumnSet |->
        CASE c = LABEL -> label
          [] c = DATE -> date
          [] c = NUMBER -> number
          [] c = "digit1" -> digits[1]
          [] c = "digit2" -> digits[2]
          [] c = "digit3" -> digits[3]
          [] c = "digit4" -> digits[4]
          [] c = "straight_payout" -> pay[1]
          [] c = "box_payout" -> pay[2]
          [] c = "set_straight_payout" -> pay[3]
          [] c = "set_box_payout" -> pay[4]]

\* a row of a detail page: the text of its three cells
RawRow(label, date, numbers) == [round_label |-> label, date |-> date, numbers |-> numbers]

\* a result of scrape_month_with_payouts, as far as the lookup reads it
MonthRow(label, pay) == Project(StoredRow(label, None, <<>>, <<0, 0, 0, 0>>, pay),
                                {LABEL} \cup PayoutSet)

SEP3 == <<2024, 9, 3>>
SEP4 == <<2024, 9, 4>>
OCT1 == <<2024, 10, 1>>

NoFile == [exists |-> FALSE, rows |-> <<>>]
File(rows) == [exists |-> TRUE, rows |-> rows]

NoPages == [m \in SeqRange(MONTHS) |-> <<>>]

IdleRun ==
    /\ end_from_past = None
    /\ end_from_current = None
    /\ end_auto = 0
    /\ start_round = 0
    /\ end_round = 0
    /\ existing_df = [loaded |-> FALSE, rows |-> <<>>]
    /\ detail_urls = <<>>
    /\ requested = <<>>
    /\ all_results = <<>>
    /\ out_df = <<>>
    /\ outcome = "running"

NotLoaded == [ok |-> FALSE, rows |-> <<>>]

IdlePublish == published = NotLoaded

IdleFill ==
    /\ df = <<>>
    /\ df_in = <<>>
    /\ filled_count = 0
    /\ payouts = <<>>
    /\ prev_payouts = <<>>
    /\ calls = 0

\* the most rows of a stored file
MaxExisting == 2

\* command lines and end estimates around a stored file that ends at 6540 or 6546
RangeFiles ==
    {NoFile, File(<<>>),
     File(<<StoredRow(Label4(6540), SEP3, <<1, 2, 3, 4>>, <<1, 2, 3, 4>>, NoPay)>>),
     File(<<StoredRow(NoNumberLabel, SEP3, <<1, 2, 3, 4>>, <<1, 2, 3, 4>>, NoPay)>>),
     File(<<StoredRow(Label4(6540), SEP3, <<1, 2, 3, 4>>, <<1, 2, 3, 4>>, NoPay),
            StoredRow(Label4(6546), SEP4, <<1, 2>>, <<0, 0, 1, 2>>, NoPay)>>),
     File(<<StoredRow(Label4(6540), SEP3, <<1, 2, 3, 4, 5>>, <<1, 2, 3, 4>>, NoPay)>>)}

RangeInputs ==
    /\ args \in [start : {0, 1, 6545, 7000}, end : {0, 6543, 6547},
                  append : BOOLEAN, with_payouts : {FALSE}, fill_payouts : {FALSE}]
    /\ csv \in RangeFiles
    /\ site \in [past_max : {None, Some(6546), Some(6549)},
                  current_max : {None, Some(6548)},
                  detail_rows : {{RawRow(Label4(6546), SEP4, <<0, 0, 1, 2>>)}},
                  month_pages : {NoPages}]

\* stored files and crawled rows that meet on draw 6541
ExistingRows ==
    {StoredRow(Label4(6540), SEP3, <<1, 2, 3, 4>>, <<1, 2, 3, 4>>, NoPay),
     StoredRow(Label4(6541), SEP3, <<0, 0, 1, 2>>, <<0, 0, 1, 2>>, NoPay),
     StoredRow(Label4(6541), OCT1, <<5, 6, 7, 8>>, <<5, 6, 7, 8>>,
               <<Some(100), Some(200), None, None>>),
     StoredRow(NoNumberLabel, SEP4, <<9, 9, 9, 9>>, <<9, 9, 9, 9>>, NoPay)}

PageRows ==
    {RawRow(Label4(6541), SEP3, <<5, SPACE, 6, SPACE, 7, SPACE, 8>>),
     RawRow(Label4(6541), SEP4, <<0, 0, 1, 2>>),
     RawRow(Label4(6542), SEP4, <<0, 0, 0, 7>>),
     RawRow(NoNumberLabel, SEP3, <<4, 3, 2, 1>>),
     RawRow(Label4(6543), OCT1, <<1, 2, SPACE, 3>>)}

MergePages ==
    {NoPages,
     [m \in SeqRange(MONTHS) |->
        IF m = <<2024, 9>>
        THEN <<MonthRow(Label4(6541), <<Some(500), None, Some(0), None>>),
               MonthRow(Label4(6540), <<Some(1), Some(2), Some(3), Some(4)>>)>>
        ELSE <<MonthRow(Label4(6542), <<Some(900), Some(40), Some(450), Some(20)>>)>>]}

MergeInputs ==
    /\ args \in [start : {6541}, end : {0}, append : BOOLEAN, with_payouts : BOOLEAN,
                  fill_payouts : {FALSE}]
    /\ csv \in {NoFile} \cup {File(rows) : rows \in BoundedSeq(ExistingRows, MaxExisting)}
    /\ site \in [past_max : {Some(6546)}, current_max : {None},
                  detail_rows : {PageRows}, month_pages : MergePages]

Init ==
    /\ pc = "detect"
    /\ RangeInputs \/ MergeInputs
    /\ csv_at_start = csv
    /\ IdleRun
    /\ IdleFill
    /\ IdlePublish

Next ==
    \/ DetectEnd
    \/ ResolveRange
    \/ FetchDetailPage
    \/ CollectPayouts
    \/ MergeAndSave

Spec == Init /\ [][Next]_vars

(***************************************************************************)
(* Runs with --fill-payouts: stored files of at most MaxRows rows, month    *)
(* pages of at most MaxMonthRows results                                   *)
(***************************************************************************)
MaxRows == 2
MaxMonthRows == 1

FillRows ==
    {StoredRow(Label4(5), OCT1, <<1, 2, 3, 4>>, <<1, 2, 3, 4>>, NoPay),
     StoredRow(Label4(5), SEP3, <<1, 2, 3, 4>>, <<1, 2, 3, 4>>,
               <<None, Some(7), None, None>>),
     StoredRow(Label4(6), SEP4, <<0, 0, 1, 2>>, <<0, 0, 1, 2>>, NoPay),
     StoredRow(Label4(6), None, <<1, 2>>, <<0, 0, 1, 2>>, NoPay),
     StoredRow(NoNumberLabel, SEP3, <<7>>, <<0, 0, 0, 7>>, NoPay)}

MonthRows ==
    {MonthRow(Label4(5), <<Some(100), None, Some(0), None>>),
     MonthRow(Label4(6), <<Some(50), Some(60), Some(70), Some(80)>>),
     MonthRow(Label4(6), NoPay)}

\* a CSV written before the payout columns existed
WithoutPayoutCols(rows) == [i \in 1..Len(rows) |-> Project(rows[i], BaseColumnSet)]

FillInputs ==
    /\ \/ csv = NoFile
       \/ \E rows \in BoundedSeq(FillRows, MaxRows) :
             csv \in {File(rows), File(WithoutPayoutCols(rows))}
    /\ \E pages \in [SeqRange(MONTHS) -> BoundedSeq(MonthRows, MaxMonthRows)] :
          site = [past_max |-> None, current_max |-> None, detail_rows |-> {},
                  month_pages |-> pages]
    /\ args = [start |-> 1, end |-> 0, append |-> FALSE, with_payouts |-> FALSE,
               fill_payouts |-> TRUE]
    /\ csv_at_start = csv

InitFill ==
    /\ pc = "fill"
    /\ FillInputs
    /\ IdleRun
    /\ IdleFill
    /\ IdlePublish

NextFill == FillMissingPayouts

SpecFill == InitFill /\ [][NextFill]_vars

(***************************************************************************)
(* convert_json.py: load_csv on the stored file, run after the scrape.     *)
(* The digits of a crawled winning number range over 0..9.                 *)
(***************************************************************************)
DRAW_NO == "draw_no"
PUB_DATE == "date"
PUB_NUMBER == "winning_number_padded"

\* astype(str) without zfill: the text of the integer that was read
zfill_missing(text, width) == text

\* str.zfill(width) of a text of digits
zfill(text, width) == [i \in 1..(width - Len(text)) |-> 0] \o text

\* load_csv: read_csv, then the columns draw_no, date and winning_number are
\* added; astype(int) raises when a label has no number
load_csv(rows) ==
    LET frame == read_csv(rows)
        extracted(i) == FirstDigitRun(frame[i][LABEL])
    IN  IF \E i \in 1..Len(frame) : extracted(i) = <<>>
        THEN NotLoaded
        ELSE [ok |-> TRUE,
              rows |-> [i \in 1..Len(frame) |->
                  WithCol(WithCol(WithCol(frame[i],
                      DRAW_NO, IntOf(extracted(i))),
                      PUB_DATE, frame[i][DATE]),
                      PUB_NUMBER, zfill(frame[i][NUMBER], 4))]]

\* convert_json.py main, lines 200-203 and 230-235: a missing file or a failed
\* load ends the conversion with nothing loaded
LoadCsv ==
    /\ pc = "exit"
    /\ pc' = "published"
    /\ published' = IF csv.exists THEN load_csv(csv.rows) ELSE NotLoaded
    /\ UNCHANGED <<args, csv, csv_at_start, site, end_from_past, end_from_current, end_auto,
                   start_round, end_round, existing_df, detail_urls, requested, all_results,
                   out_df, outcome>>
    /\ UNCHANGED fillVars

Digit == 0..9

\* the file an earlier full run wrote for one crawled row
WrittenBy(raw) == File(MergeFull(DfNew(scrape_detail_page(<<raw>>))))

\* draw 2 is served with the digits d1..d4, a blank inside the cell; in append
\* mode the stored file holds draw 1 with the digits in reverse
PublishInputs ==
    \E d1 \in Digit, d2 \in Digit, d3 \in Digit, d4 \in Digit :
        /\ site = [past_max |-> Some(2), current_max |-> None,
                   detail_rows |-> {RawRow(Label4(2), SEP4, <<d1, d2, SPACE, d3, d4>>)},
                   month_pages |-> NoPages]
        /\ \/ /\ args = [start |-> 1, end |-> 0, append |-> FALSE, with_payouts |-> FALSE,
                        fill_payouts |-> FALSE]
              /\ csv = NoFile
           \/ /\ args = [start |-> 1, end |-> 0, append |-> TRUE, with_payouts |-> FALSE,
                        fill_payouts |-> FALSE]
              /\ csv = WrittenBy(RawRow(Label4(1), SEP3, <<d4, d3, d2, d1>>))

InitPublish ==
    /\ pc = "detect"
    /\ PublishInputs
    /\ csv_at_start = csv
    /\ IdleRun
    /\ IdleFill
    /\ IdlePublish

NextPublish ==
    \/ DetectEnd
    \/ ResolveRange
    \/ FetchDetailPage
    \/ CollectPayouts
    \/ MergeAndSave
    \/ LoadCsv

SpecPublish == InitPublish /\ [][NextPublish]_vars

(***************************************************************************)
(* Runs over every start and end up to MaxRound, on a site whose detail    *)
(* pages hold no row: what build_detail_urls makes of each range           *)
(***************************************************************************)
MaxRound == 45

UrlInputs ==
    /\ args \in [start : 0..MaxRound, end : 0..MaxRound,
                  append : {FALSE}, with_payouts : {FALSE}, fill_payouts : {FALSE}]
    /\ csv = NoFile
    /\ site = [past_max |-> Some(MaxRound), current_max |-> None,
               detail_rows |-> {}, month_pages |-> NoPages]

InitUrls ==
    /\ pc = "detect"
    /\ UrlInputs
    /\ csv_at_start = csv
    /\ IdleRun
    /\ IdleFill
    /\ IdlePublish

NextUrls ==
    \/ DetectEnd
    \/ ResolveRange
    \/ FetchDetailPage
    \/ CollectPayouts
    \/ MergeAndSave

SpecUrls == InitUrls /\ [][NextUrls]_vars

(***************************************************************************)
(* Properties of the merge                                                 *)
(***************************************************************************)
Round(row) == to_round_int(row[LABEL])
Rounds(rows) == {Round(rows[i]) : i \in 1..Len(rows)}

Saved == pc = "exit" /\ outcome = "saved"
AppendMerged == Saved /\ args.append /\ existing_df.loaded

\* the stored records the merge was given (none outside the append path)
Existing == IF args.append /\ existing_df.loaded THEN existing_df.rows ELSE <<>>

\* a record as a row of the canonical columns
AsCsvRow(row) == Project(AddMissingCols(row, CsvColumnSet), CsvColumnSet)

\* the batch's record for draw n: the last one crawled
IncomingRecord(n) ==
    AsCsvRow(all_results[MaxOf({i \in 1..Len(all_results) : Round(all_results[i]) = n})])

SharedRounds == Rounds(Existing) \cap Rounds(all_results)
\* ... among them the real draw numbers (a label without a number gives -1)
SharedDrawNos == {n \in SharedRounds : n >= 1}

\* C1 (as claimed): after an append merge, for every draw_no that the stored
\* dataset and the incoming batch both hold, the output's record for that
\* draw_no is the incoming one, whatever the two draw dates are.
C1_IncomingAlwaysWins ==
    AppendMerged =>
        \A n \in SharedDrawNos :
            /\ \E i \in 1..Len(out_df) : out_df[i] = IncomingRecord(n)
            /\ \A i \in 1..Len(out_df) :
                  Round(out_df[i]) = n => out_df[i] = IncomingRecord(n)

StrictlyIncreasing(rows) ==
    \A i \in 1..(Len(rows) - 1) : Round(rows[i]) < Round(rows[i + 1])

\* C2: whenever a run saves, in the append path and in the full path, the
\* saved sequence is strictly increasing in draw_no: sorted ascending and no
\* two records with the same draw_no, for any order of the stored rows and of
\* the crawled rows.
C2_OutputStrictlyIncreasing == Saved => StrictlyIncreasing(out_df)

Unsorted(rows) == \E i \in 1..Len(rows) : \E j \in (i + 1)..Len(rows) : Round(rows[i]) >= Round(rows[j])

\* C2 witness: an append merge of stored rows that are out of order with a
\* batch that is out of order too, saving at least two records.
C2_Witness ==
    /\ AppendMerged
    /\ Unsorted(existing_df.rows)
    /\ Unsorted(all_results)
    /\ Len(out_df) >= 2

DuplicateFree(rows) == Cardinality(Rounds(rows)) = Len(rows)

\* C3: whenever a run saves a non-empty batch, the draw_no values of the output
\* are exactly those of the stored dataset it merged and of the batch, one
\* record each; so when both are duplicate-free and share no draw_no the
\* output has as many records as both together.
C3_OneRecordPerDrawNo ==
    Saved =>
        /\ all_results # <<>>
        /\ Rounds(out_df) = Rounds(Existing) \cup Rounds(all_results)
        /\ DuplicateFree(out_df)
        /\ (DuplicateFree(Existing) /\ DuplicateFree(all_results) /\ SharedRounds = {}
              => Len(out_df) = Len(Existing) + Len(all_results))

\* C3 witness: an append merge of two stored records with two crawled records,
\* all of different draws, saving four.
C3_Witness ==
    /\ AppendMerged
    /\ Len(existing_df.rows) = 2
    /\ Len(all_results) = 2
    /\ SharedRounds = {}
    /\ Len(out_df) = 4

(***************************************************************************)
(* Properties of fill_missing_payouts                                      *)
(***************************************************************************)
\* a payout cell of a row of a frame that may lack the payout columns
PayoutOf(row, c) == IF c \in DOMAIN row THEN row[c] ELSE None
HasPayout(row) == \E c \in PayoutSet : PayoutOf(row, c) # None
AllUnset(row) == ~HasPayout(row)

\* the latest run had its file and called fill_missing_payouts
Called == pc = "fill" /\ calls >= 1 /\ outcome = "filled"

\* C4 (as claimed): a row that has at least one payout set before the call has
\* all four payouts unchanged after it, for every frame and every site content.
C4_EnrichedRowsUntouched ==
    Called =>
        \A i \in 1..Len(df_in) :
            HasPayout(df_in[i]) => \A c \in PayoutSet : df[i][c] = PayoutOf(df_in[i], c)

\* the lookup of the latest call gives, for every draw it has, what the lookup
\* of the call before gave
SameLookupData ==
    \A n \in DOMAIN payouts : n \in DOMAIN prev_payouts /\ prev_payouts[n] = payouts[n]

\* C5: a call on the frame the previous call returned, looking up the same
\* payout data as that call did, fills zero fields and returns the frame it
\* was given.
C5_SecondCallFillsNothing ==
    (Called /\ calls >= 2 /\ SameLookupData) => (filled_count = 0 /\ df = df_in)

\* C5 witness: a second call that still found rows without payouts and
\* collected a lookup for them, after a first call whose lookup held more draws.
C5_Witness ==
    /\ pc = "fill" /\ calls = 2
    /\ SameLookupData
    /\ DOMAIN payouts # {}
    /\ DOMAIN prev_payouts # DOMAIN payouts
    /\ \E i \in 1..Len(df) : HasPayout(df[i])

\* C6: the returned frame has the rows of the given frame, in the same order,
\* with every non-payout column unchanged, and exactly the canonical columns
\* (the helper column is gone).
C6_OnlyPayoutsChange ==
    Called =>
        /\ Len(df) = Len(df_in)
        /\ \A i \in 1..Len(df_in) :
              /\ \A c \in BaseColumnSet : df[i][c] = df_in[i][c]
              /\ DOMAIN df[i] = CsvColumnSet

\* C6 witness: a call on two rows that are not in draw order, filling a field.
C6_Witness ==
    /\ Called
    /\ Len(df_in) = 2
    /\ Round(df_in[1]) > Round(df_in[2])
    /\ filled_count >= 1

\* what the lookup of the latest call holds for draw n, column c
LookupValue(n, c) ==
    IF n \in DOMAIN payouts /\ payouts[n][c] # None THEN payouts[n][c] ELSE None

\* C7: a row with all four payouts unset gets, in each payout column, the value
\* the lookup holds for its draw and that column, and stays unset where the
\* lookup has no entry for the draw or no value for the column; the printed
\* count is the number of cells that went from unset to set.
C7_FilledFromLookup ==
    Called =>
        /\ \A i \in 1..Len(df_in) :
              AllUnset(df_in[i]) =>
                  \A c \in PayoutSet : df[i][c] = LookupValue(Round(df_in[i]), c)
        /\ filled_count =
              Cardinality({<<i, c>> \in (1..Len(df_in)) \X PayoutSet :
                              PayoutOf(df_in[i], c) = None /\ df[i][c] # None})

\* C7 witness: one call that fills a row from an entry holding some columns
\* and not others, and leaves another row unset for want of an entry.
C7_Witness ==
    /\ pc = "fill" /\ calls = 1
    /\ \E i \in 1..Len(df_in) :
          /\ AllUnset(df_in[i])
          /\ Round(df_in[i]) \in DOMAIN payouts
          /\ \E c \in PayoutSet : df[i][c] # None
          /\ \E c \in PayoutSet : df[i][c] = None
    /\ \E j \in 1..Len(df_in) :
          /\ AllUnset(df_in[j])
          /\ Round(df_in[j]) \notin DOMAIN payouts
          /\ AllUnset(df[j])

(***************************************************************************)
(* Properties of the range resolution                                      *)
(***************************************************************************)
Resolved == pc \in {"crawl", "merge", "exit"}

\* the end estimates that were detected
Estimates == {e[1] : e \in {end_from_past, end_from_current} \ {None}}

\* the append floor applies: a stored file was read and has rows
Floored == args.append /\ existing_df.loaded /\ existing_df.rows # <<>>
existingMaxDrawNo == max_saved(existing_df.rows)

\* the example of the specification
C8_Example ==
    (/\ args.start = 1 /\ args.end = 0 /\ end_auto = 6546
     /\ Floored /\ existingMaxDrawNo = 6540)
    => (start_round = 6541 /\ end_round = 6546)

\* C8 (as claimed): in append mode with no explicit end, the end is the larger
\* of the two detected estimates and, when the stored maximum is below it, the
\* start is max(explicitStart, existingMaxDrawNo + 1).
C8_AsClaimed ==
    (Resolved /\ args.append /\ args.end = 0) =>
        /\ end_round \in Estimates
        /\ \A e \in Estimates : e <= end_round
        /\ (Floored /\ existingMaxDrawNo < end_round
              => start_round = Max2(args.start, existingMaxDrawNo + 1))
        /\ C8_Example

\* C8 (amended): in append mode with no explicit end, the end is the larger of
\* the estimates that were detected, or 6546 when none was; when the stored
\* maximum is below it, the start is max(1, explicitStart,
\* existingMaxDrawNo + 1); start 1, end 0, detected end 6546 and stored maximum
\* 6540 give (6541, 6546).
C8_RangeInAppendMode ==
    (Resolved /\ args.append /\ args.end = 0) =>
        /\ end_round = IF Estimates = {} THEN DEFAULT_END ELSE MaxOf(Estimates)
        /\ (Floored /\ existingMaxDrawNo < end_round
              => start_round = Max2(1, Max2(args.start, existingMaxDrawNo + 1)))
        /\ C8_Example

\* C8 witness: the example, resolved to the single page 6541-6546.
C8_Witness ==
    /\ pc = "crawl"
    /\ args.append /\ args.start = 1 /\ args.end = 0
    /\ end_from_past = Some(6546) /\ end_from_current = None
    /\ Floored /\ existingMaxDrawNo = 6540
    /\ start_round = 6541 /\ end_round = 6546
    /\ detail_urls = <<<<6541, 6546>>>>

\* C9 (as claimed): in append mode with a stored maximum draw number, if
\* existingMaxDrawNo + 1 exceeds the resolved end the run ends "up to date"
\* without requesting a detail page or writing the file, and no run goes on
\* with a start above its end.
C9_NothingToDo ==
    (Resolved /\ Floored /\ existingMaxDrawNo >= 1) =>
        /\ (existingMaxDrawNo + 1 > end_round
              => outcome = "up_to_date" /\ requested = <<>> /\ csv = csv_at_start)
        /\ (outcome # "up_to_date" => start_round <= end_round)

\* C10 (as claimed): whatever the command line, the estimates and the stored
\* file, a resolved start above the resolved end is a no-op: no detail page is
\* requested, and no page outside [start, end] ever is.
C10_EmptyRangeIsNoOp ==
    Resolved =>
        /\ (start_round > end_round => requested = <<>>)
        /\ \A i \in 1..Len(requested) :
              start_round <= requested[i][1] /\ requested[i][2] <= end_round

(***************************************************************************)
(* Malformed records                                                       *)
(***************************************************************************)
\* the draw number cannot be derived from the label
NoDrawNo(row) == Round(row) = to_round_int_no_match

\* the winning number is not 4 digits, leading zeros restored
NotFourDigits(row) ==
    \/ Len(zfill(row[NUMBER], 4)) # 4
    \/ \E k \in 1..Len(row[NUMBER]) : ~IsDigit(row[NUMBER][k])

Malformed(row) == NoDrawNo(row) \/ NotFourDigits(row)

\* C11 (as claimed): whenever a run saves, no record of the output has a winning
\* number that is not exactly 4 digits or a label from which no draw number
\* can be derived, whether the record was crawled or was in the stored file.
C11_MalformedExcluded ==
    Saved => \A i \in 1..Len(out_df) : ~Malformed(out_df[i])

(***************************************************************************)
(* Properties of the published records                                     *)
(***************************************************************************)
Published == pc = "published" /\ published.ok

DigitsOf(row) == [k \in 1..4 |-> row[DIGIT_COLS[k]]]

\* C12: every record that was crawled, saved and then loaded for publication
\* has a winning number of exactly 4 decimal characters whose i-th character
\* is digit i, and the record of a crawled draw has the four digits that the
\* detail page showed, for all digits in 0..9, also when the stored number
\* had lost its leading zeros.
C12_FourDigitsRoundTrip ==
    Published =>
        /\ \A i \in 1..Len(published.rows) :
              /\ Len(published.rows[i][PUB_NUMBER]) = 4
              /\ \A k \in 1..4 : IsDigit(published.rows[i][PUB_NUMBER][k])
              /\ DigitsOf(published.rows[i]) = published.rows[i][PUB_NUMBER]
        /\ \A raw \in site.detail_rows :
              \A i \in 1..Len(published.rows) :
                  published.rows[i][LABEL] = raw.round_label
                      => DigitsOf(published.rows[i]) = DigitsOnly(raw.numbers)

\* C12 witness: an append run rewrote a stored record whose number begins with
\* zeros, so the file holds fewer than 4 characters for it, next to a crawled
\* record; both were loaded.
C12_Witness ==
    /\ Published
    /\ outcome = "saved" /\ args.append
    /\ Len(published.rows) = 2
    /\ \E i \in 1..Len(csv.rows) :
          /\ Len(csv.rows[i][NUMBER]) < 4
          /\ published.rows[i][PUB_NUMBER][1] = 0
          /\ published.rows[i]["digit4"] # 0
    /\ \E i \in 1..Len(published.rows) :
          /\ published.rows[i][LABEL] \in {raw.round_label : raw \in site.detail_rows}
          /\ published.rows[i][PUB_NUMBER][1] # 0

(***************************************************************************)
(* Properties of the fetch units                                           *)
(***************************************************************************)
\* the run built its detail URLs
Built == pc \in {"crawl", "merge"} \/ (pc = "exit" /\ outcome # "up_to_date")

UnitSize(u) == u[2] - u[1] + 1

\* C13: for 1 <= start <= end the units of build_detail_urls(start, end)
\* partition [start, end]: the first begins at start, each begins right after
\* the one before ends, every unit but the last covers exactly 20 draw
\* numbers, the last covers 1 to 20 and ends at end, every draw number of
\* [start, end] is in exactly one unit and no unit reaches outside.
C13_UnitsPartitionRange ==
    (Built /\ 1 <= start_round /\ start_round <= end_round) =>
        LET u == detail_urls
            n == Len(detail_urls)
        IN  /\ u = build_detail_urls(start_round, end_round)
            /\ n >= 1
            /\ u[1][1] = start_round
            /\ \A k \in 1..(n - 1) : u[k + 1][1] = u[k][2] + 1
            /\ \A k \in 1..(n - 1) : UnitSize(u[k]) = 20
            /\ UnitSize(u[n]) \in 1..20
            /\ u[n][2] = end_round
            /\ \A d \in start_round..end_round :
                  Cardinality({k \in 1..n : u[k][1] <= d /\ d <= u[k][2]}) = 1
            /\ \A k \in 1..n : start_round <= u[k][1] /\ u[k][2] <= end_round

\* C13 witness: a range that does not start at 1, cut into three units of which
\* the last is shorter than 20, each of them requested.
C13_Witness ==
    /\ Built
    /\ 1 < start_round /\ start_round <= end_round
    /\ Len(detail_urls) = 3
    /\ UnitSize(detail_urls[3]) < 20
    /\ requested = detail_urls

(***************************************************************************)
(* A run without a new record                                              *)
(***************************************************************************)
\* C14: as long as a run has crawled no record (every detail page failed or
\* held no valid row) the stored file is the one the run began with, and such
\* a run ends with the message that there is no new data, having written
\* nothing, in append mode and in full mode alike.
C14_NoNewRecordNoWrite ==
    (Built /\ all_results = <<>>) =>
        /\ csv = csv_at_start
        /\ out_df = <<>>
        /\ (pc = "exit" => outcome = "no_new_data")

\* C14 witness: a full run (no --append) that requested its pages, crawled no
\* record and ended, beside a stored file with rows that a write would have
\* replaced.
C14_Witness ==
    /\ pc = "exit" /\ outcome = "no_new_data"
    /\ ~args.append
    /\ csv_at_start.exists /\ csv_at_start.rows # <<>>
    /\ requested # <<>> /\ requested = detail_urls
    /\ all_results = <<>>
    /\ csv = csv_at_start

====
